---- MODULE Spec2Model ----
(***************************************************************************)
(* Pay-per-second metering service: the session registry, the user ledger, *)
(* the aggregation cycle, the stale-session reaper and the session         *)
(* lifecycle handlers of the streaming server.                             *)
(*                                                                         *)
(* Node runs every handler and timer callback to completion (or to its     *)
(* first await) before anything else runs, so each handler is one action.  *)
(* Time is Date.now() in milliseconds; the reads of Date.now() within one  *)
(* handler return the same value.  Costs are counted in thousandths of a   *)
(* currency unit, so that PRICE_PER_SECOND = 0.001 is the integer 1.       *)
(* The handlers are modelled as the functions registered on the express    *)
(* app: they can be called as soon as the module is loaded, although       *)
(* app.listen runs only after initializeService has succeeded.             *)
(*                                                                         *)
(* The module also follows the life of the ledger subscription of the      *)
(* useLedger hook of the front-end, from mount to unmount, and the body of *)
(* the front-end's start request.                                          *)
(***************************************************************************)
EXTENDS Integers, Sequences, FiniteSets

VARIABLES now,            \* Date.now()
          isInitialized,  \* let isInitialized
          exited,         \* process.exit(1) was called
          activeSessions, \* Map<string, ActiveSession>
          userLedger,     \* Map<string, UserLedger>
          inflight,       \* publishLedgerState calls awaiting their result
          response,       \* what the step just taken answered, if it served a request
          issued,         \* history: sessionIds returned by successful starts
          removed,        \* history: sessionIds removed by a stop or by the reaper
          startedUsers,   \* history: userIds of the successful starts
          published,      \* the snapshot of the latest publish call that succeeded
          failures,       \* history: publish calls that failed
          nextReap,       \* when the reaper timer fires next, where its schedule is modelled
          lastTick,       \* history: the registry read and the snapshot built by the latest recorded tick
          nextTick,       \* when the aggregation timer fires next, where its schedule is modelled
          callTimes,      \* history: Date.now() at each call in inflight, where it is recorded
          subscription,   \* useLedger effect: let subscription
          isSubscribed,   \* useLedger effect: let isSubscribed
          isConnected,    \* useLedger: the isConnected state
          setups,         \* setupSubscription calls awaiting the SDK
          live,           \* subscriptions the SDK has established and not ended
          created,        \* history: how many subscriptions the SDK has established
          timers,         \* due times of the pending reconnect and retry timeouts
          cleanedUp       \* the effect cleanup has run

hookVars == <<subscription, isSubscribed, isConnected, setups, live, created, timers, cleanedUp>>

vars == <<now, isInitialized, exited, activeSessions, userLedger, inflight,
          response, issued, removed, startedUsers, published, failures, nextReap,
          lastTick, nextTick, callTimes, hookVars>>

---------------------------------------------------------------------------
(* Bounds of the model *)

Steps == 1        \* half-second steps after the server starts
NumUsers == 2
NumRandom == 2    \* values Math.random() can take
MaxStarts == 2    \* successful starts over the server's lifetime
MaxInFlight == 2  \* publish calls awaiting their result
MaxFailures == 2  \* publish calls that fail over the server's lifetime
MaxSetups == 2         \* setupSubscription calls awaiting the SDK at once
MaxSubscriptions == 3  \* subscriptions the SDK establishes over the hook's lifetime
MaxTimers == 2         \* reconnect and retry timeouts pending at once
HookSeconds == 10      \* seconds of the hook's life the clock covers

(* Program constants *)

PRICE_PER_SECOND == 1
AUTO_STOP_TIMEOUT == 300000
REAPER_INTERVAL == 30000
TICK_INTERVAL == 1000
MsPerSecond == 1000
RECONNECT_DELAY == 3000
RETRY_DELAY == 5000

\* Granularity of the modelled clock: half a second, so that floors round
TimeStep == MsPerSecond \div 2

---------------------------------------------------------------------------
(* Inputs *)

Missing == ""
UserNames == <<"u1", "u2", "u3", "u4">>
UserIds == {UserNames[i] : i \in 1..NumUsers}
ContentIds == {"c1"}
RandomSuffixes == 0..(NumRandom - 1)

\* The instants at which something happens: a window after the server starts,
\* and the instant at which a session started at 0 is stale and a session
\* started one step later is exactly AUTO_STOP_TIMEOUT old.
Instants == {k * TimeStep : k \in 0..Steps} \cup {AUTO_STOP_TIMEOUT + TimeStep}

---------------------------------------------------------------------------
(* Map helpers: a Map<K, V> is a function from the keys it holds to their values *)

MapHas(map, key) == key \in DOMAIN map

\* Map.set
MapSet(map, key, value) ==
    [k \in DOMAIN map \cup {key} |-> IF k = key THEN value ELSE map[k]]

\* Map.delete
MapDelete(map, key) == [k \in DOMAIN map \ {key} |-> map[k]]

EmptyMap == [k \in {} |-> 0]

---------------------------------------------------------------------------
(* Pure functions *)

generateSessionId(timestamp, random) == [timestamp |-> timestamp, random |-> random]

\* Faulty variant: the quotient rounded to the nearest second instead of floored
ElapsedSecondsRounded(end, start) == (end - start + (MsPerSecond \div 2)) \div MsPerSecond

\* Math.floor((end - start) / 1000)
ElapsedSeconds(end, start) == (end - start) \div MsPerSecond

Cost(seconds) == seconds * PRICE_PER_SECOND

RECURSIVE SumSeconds(_, _, _, _)
SumSeconds(sessions, ids, uid, t) ==
    IF ids = {} THEN 0
    ELSE LET sid == CHOOSE x \in ids : TRUE
         IN (IF sessions[sid].userId = uid
             THEN ElapsedSeconds(t, sessions[sid].startTime) ELSE 0)
            + SumSeconds(sessions, ids \ {sid}, uid, t)

\* userSecondsMap of the aggregation callback
UserSecondsMap(sessions, t) ==
    [uid \in {sessions[sid].userId : sid \in DOMAIN sessions} |->
        SumSeconds(sessions, DOMAIN sessions, uid, t)]

\* Faulty variant: the live sum added to the total held before the tick
LedgerUpdateAccumulate(ledger, usm, t) ==
    [uid \in DOMAIN ledger |->
        IF uid \in DOMAIN usm
        THEN [ledger[uid] EXCEPT !.totalSeconds = @ + usm[uid], !.lastUpdate = t]
        ELSE ledger[uid]]

\* Faulty variant: the loop runs over the ledger and zeroes the users it finds
\* without a session
LedgerUpdateResetsIdle(ledger, usm, t) ==
    [uid \in DOMAIN ledger |->
        [ledger[uid] EXCEPT !.totalSeconds = IF uid \in DOMAIN usm THEN usm[uid] ELSE 0,
                            !.lastUpdate = t]]

\* Faulty variant: the loop stores what was added since the total it finds
LedgerUpdateIncrement(ledger, usm, t) ==
    [uid \in DOMAIN ledger |->
        IF uid \in DOMAIN usm
        THEN [ledger[uid] EXCEPT !.totalSeconds = usm[uid] - @, !.lastUpdate = t]
        ELSE ledger[uid]]

\* The ledger after the callback's update loop
LedgerUpdate(ledger, usm, t) ==
    [uid \in DOMAIN ledger |->
        IF uid \in DOMAIN usm
        THEN [ledger[uid] EXCEPT !.totalSeconds = usm[uid], !.lastUpdate = t]
        ELSE ledger[uid]]

\* ledgerEntries: the copy handed to publishLedgerState
Snapshot(ledger) ==
    {[userId |-> ledger[uid].userId, totalSeconds |-> ledger[uid].totalSeconds] :
        uid \in DOMAIN ledger}

\* elapsed > AUTO_STOP_TIMEOUT
\* Faulty variant: a session is stale from the limit on
IsStaleAtLimit(session, t) == t - session.startTime >= AUTO_STOP_TIMEOUT

IsStale(session, t) == t - session.startTime > AUTO_STOP_TIMEOUT

---------------------------------------------------------------------------
(* Initial state: module load *)

\* let subscription: undefined until a setup assigns it
NoSubscription == 0

NoResponse == [op |-> "none", status |-> 0, body |-> <<>>]

Init ==
    /\ now = 0
    /\ isInitialized = FALSE
    /\ exited = FALSE
    /\ activeSessions = EmptyMap
    /\ userLedger = EmptyMap
    /\ inflight = <<>>
    /\ response = NoResponse
    /\ issued = {}
    /\ removed = {}
    /\ startedUsers = {}
    /\ published = {}
    /\ failures = 0
    /\ nextReap = REAPER_INTERVAL
    /\ lastTick = [sessions |-> EmptyMap, snapshot |-> {}]
    /\ nextTick = TICK_INTERVAL
    /\ callTimes = <<>>
    /\ subscription = NoSubscription
    /\ isSubscribed = FALSE
    /\ isConnected = FALSE
    /\ setups = 1
    /\ live = {}
    /\ created = 0
    /\ timers = <<>>
    /\ cleanedUp = FALSE

---------------------------------------------------------------------------
(* The clock *)

Advance ==
    /\ ~exited
    /\ \E t \in Instants : t > now /\ now' = t
    /\ response' = NoResponse
    /\ UNCHANGED <<isInitialized, exited, activeSessions, userLedger, inflight, issued, removed,
                   startedUsers, published, failures, nextReap,
                   lastTick, nextTick, callTimes, hookVars>>

(* initializeService *)

InitializeOk ==
    /\ ~exited /\ ~isInitialized
    /\ isInitialized' = TRUE
    /\ response' = NoResponse
    /\ UNCHANGED <<now, exited, activeSessions, userLedger, inflight, issued, removed,
                   startedUsers, published, failures, nextReap,
                   lastTick, nextTick, callTimes, hookVars>>

InitializeFail ==
    /\ ~exited /\ ~isInitialized
    /\ exited' = TRUE
    /\ response' = NoResponse
    /\ UNCHANGED <<now, isInitialized, activeSessions, userLedger, inflight, issued, removed,
                   startedUsers, published, failures, nextReap,
                   lastTick, nextTick, callTimes, hookVars>>

---------------------------------------------------------------------------
(* POST /api/stream/start *)

StartInvalid(userId, contentId) ==
    /\ ~exited
    /\ userId = Missing \/ contentId = Missing
    /\ response' = [op |-> "start", status |-> 400, body |-> <<>>]
    /\ UNCHANGED <<now, isInitialized, exited, activeSessions, userLedger,
                   inflight, issued, removed,
                   startedUsers, published, failures, nextReap,
                   lastTick, nextTick, callTimes, hookVars>>

\* Faulty variant: the ledger entry created before the initialization check
StartNotReadyAfterLedger(userId, contentId) ==
    /\ ~exited
    /\ userId # Missing /\ contentId # Missing
    /\ ~isInitialized
    /\ userLedger' = MapSet(userLedger, userId,
                            [userId |-> userId, totalSeconds |-> 0, lastUpdate |-> now])
    /\ response' = [op |-> "start", status |-> 503, body |-> <<>>]
    /\ UNCHANGED <<now, isInitialized, exited, activeSessions, inflight, issued, removed,
                   startedUsers, published, failures, nextReap,
                   lastTick, nextTick, callTimes, hookVars>>

\* Faulty variant: the handler registers the session without testing
\* isInitialized
StartNotReadyProceeds(userId, contentId) ==
    /\ ~exited
    /\ userId # Missing /\ contentId # Missing
    /\ ~isInitialized
    /\ Cardinality(issued) < MaxStarts
    /\ \E random \in RandomSuffixes :
          LET sessionId == generateSessionId(now, random)
          IN /\ activeSessions' = MapSet(activeSessions, sessionId,
                                      [sessionId |-> sessionId, userId |-> userId,
                                       contentId |-> contentId, startTime |-> now])
             /\ userLedger' = IF MapHas(userLedger, userId) THEN userLedger
                              ELSE MapSet(userLedger, userId,
                                          [userId |-> userId, totalSeconds |-> 0,
                                           lastUpdate |-> now])
             /\ response' = [op |-> "start", status |-> 200,
                             body |-> [sessionId |-> sessionId,
                                       pricePerSecond |-> PRICE_PER_SECOND,
                                       startTime |-> now]]
             /\ issued' = issued \cup {sessionId}
    /\ startedUsers' = startedUsers \cup {userId}
    /\ UNCHANGED <<now, isInitialized, exited, inflight, removed,
                   published, failures, nextReap,
                   lastTick, nextTick, callTimes, hookVars>>

StartNotReady(userId, contentId) ==
    /\ ~exited
    /\ userId # Missing /\ contentId # Missing
    /\ ~isInitialized
    /\ response' = [op |-> "start", status |-> 503, body |-> <<>>]
    /\ UNCHANGED <<now, isInitialized, exited, activeSessions, userLedger,
                   inflight, issued, removed,
                   startedUsers, published, failures, nextReap,
                   lastTick, nextTick, callTimes, hookVars>>

NewSession(sessionId, userId, contentId, startTime) ==
    [sessionId |-> sessionId, userId |-> userId, contentId |-> contentId,
     startTime |-> startTime]

\* Faulty variant: an entry is created only while the ledger is empty
EnsureEntryFirstUserOnly(ledger, userId, startTime) ==
    IF DOMAIN ledger # {} THEN ledger
    ELSE MapSet(ledger, userId, [userId |-> userId, totalSeconds |-> 0,
                                 lastUpdate |-> startTime])

\* if (!userLedger.has(userId)) userLedger.set(userId, {...})
EnsureEntry(ledger, userId, startTime) ==
    IF MapHas(ledger, userId) THEN ledger
    ELSE MapSet(ledger, userId, [userId |-> userId, totalSeconds |-> 0,
                                 lastUpdate |-> startTime])

StartOk(userId, contentId, random) ==
    /\ ~exited
    /\ userId # Missing /\ contentId # Missing
    /\ isInitialized
    /\ Cardinality(issued) < MaxStarts
    /\ LET sessionId == generateSessionId(now, random)
           startTime == now
       IN /\ activeSessions' = MapSet(activeSessions, sessionId,
                                   NewSession(sessionId, userId, contentId, startTime))
          /\ userLedger' = EnsureEntry(userLedger, userId, startTime)
          /\ response' = [op |-> "start", status |-> 200,
                          body |-> [sessionId |-> sessionId,
                                    pricePerSecond |-> PRICE_PER_SECOND,
                                    startTime |-> startTime]]
          /\ issued' = issued \cup {sessionId}
    /\ startedUsers' = startedUsers \cup {userId}
    /\ UNCHANGED <<now, isInitialized, exited, inflight, removed,
                   published, failures, nextReap,
                   lastTick, nextTick, callTimes, hookVars>>

\* The handler called with a request body
StartCall(userId, contentId) ==
    \/ StartInvalid(userId, contentId)
    \/ StartNotReady(userId, contentId)
    \/ \E random \in RandomSuffixes : StartOk(userId, contentId, random)

StartUserIds == UserIds \cup {Missing}
StartContentIds == ContentIds \cup {Missing}

Start ==
    \E userId \in StartUserIds, contentId \in StartContentIds :
        StartCall(userId, contentId)

(* Front-end: handleStart *)

\* The body the start handler receives from the front-end, which posts
\* JSON.stringify({ userId }): no contentId
StartRequest(userId) == [userId |-> userId, contentId |-> Missing]

---------------------------------------------------------------------------
(* POST /api/stream/stop *)

\* An absent sessionId field of a request body
MissingSessionId == generateSessionId(-1, -1)
\* A well-formed sessionId that no start ever returned
UnknownSessionId == generateSessionId(0, NumRandom)

StopInvalid(sessionId, userId) ==
    /\ ~exited
    /\ sessionId = MissingSessionId \/ userId = Missing
    /\ response' = [op |-> "stop", status |-> 400, body |-> <<>>]
    /\ UNCHANGED <<now, isInitialized, exited, activeSessions, userLedger,
                   inflight, issued, removed,
                   startedUsers, published, failures, nextReap,
                   lastTick, nextTick, callTimes, hookVars>>

\* Faulty variant: an absent session silently accepted
StopNotFoundAccepted(sessionId, userId) ==
    /\ ~exited
    /\ sessionId # MissingSessionId /\ userId # Missing
    /\ ~MapHas(activeSessions, sessionId)
    /\ response' = [op |-> "stop", status |-> 200, body |-> <<>>]
    /\ UNCHANGED <<now, isInitialized, exited, activeSessions, userLedger,
                   inflight, issued, removed,
                   startedUsers, published, failures, nextReap,
                   lastTick, nextTick, callTimes, hookVars>>

StopNotFound(sessionId, userId) ==
    /\ ~exited
    /\ sessionId # MissingSessionId /\ userId # Missing
    /\ ~MapHas(activeSessions, sessionId)
    /\ response' = [op |-> "stop", status |-> 404, body |-> <<>>]
    /\ UNCHANGED <<now, isInitialized, exited, activeSessions, userLedger,
                   inflight, issued, removed,
                   startedUsers, published, failures, nextReap,
                   lastTick, nextTick, callTimes, hookVars>>

\* Faulty variant: the session deleted before the ownership check
StopForbiddenAfterDelete(sessionId, userId) ==
    /\ ~exited
    /\ sessionId # MissingSessionId /\ userId # Missing
    /\ MapHas(activeSessions, sessionId)
    /\ activeSessions[sessionId].userId # userId
    /\ activeSessions' = MapDelete(activeSessions, sessionId)
    /\ response' = [op |-> "stop", status |-> 403, body |-> <<>>]
    /\ UNCHANGED <<now, isInitialized, exited, userLedger, inflight, issued, removed,
                   startedUsers, published, failures, nextReap,
                   lastTick, nextTick, callTimes, hookVars>>

StopForbidden(sessionId, userId) ==
    /\ ~exited
    /\ sessionId # MissingSessionId /\ userId # Missing
    /\ MapHas(activeSessions, sessionId)
    /\ activeSessions[sessionId].userId # userId
    /\ response' = [op |-> "stop", status |-> 403, body |-> <<>>]
    /\ UNCHANGED <<now, isInitialized, exited, activeSessions, userLedger,
                   inflight, issued, removed,
                   startedUsers, published, failures, nextReap,
                   lastTick, nextTick, callTimes, hookVars>>

\* ledgerEntry?.totalSeconds || 0
UserTotalSeconds(ledger, userId) ==
    IF MapHas(ledger, userId) THEN ledger[userId].totalSeconds ELSE 0

StopBody(session, endTime, ledger) ==
    LET sessionSeconds == ElapsedSeconds(endTime, session.startTime)
    IN [sessionId |-> session.sessionId,
        sessionSeconds |-> sessionSeconds,
        sessionCost |-> Cost(sessionSeconds),
        userTotalSeconds |-> UserTotalSeconds(ledger, session.userId),
        pricePerSecond |-> PRICE_PER_SECOND]

\* Faulty variant: the stop adds the session's seconds to the user's ledger total
StopOkFinalizes(sessionId, userId) ==
    /\ ~exited
    /\ sessionId # MissingSessionId /\ userId # Missing
    /\ MapHas(activeSessions, sessionId)
    /\ activeSessions[sessionId].userId = userId
    /\ LET session == activeSessions[sessionId]
           seconds == ElapsedSeconds(now, session.startTime)
           ledger == [uid \in DOMAIN userLedger |->
                        IF uid = userId
                        THEN [userLedger[uid] EXCEPT !.totalSeconds = @ + seconds]
                        ELSE userLedger[uid]]
       IN /\ activeSessions' = MapDelete(activeSessions, sessionId)
          /\ userLedger' = ledger
          /\ response' = [op |-> "stop", status |-> 200,
                          body |-> StopBody(session, now, ledger)]
    /\ removed' = removed \cup {sessionId}
    /\ UNCHANGED <<now, isInitialized, exited, inflight, issued,
                   startedUsers, published, failures, nextReap,
                   lastTick, nextTick, callTimes, hookVars>>

\* Faulty variant: the stop of a user's last session drops the user's ledger entry
StopOkDropsEntry(sessionId, userId) ==
    /\ ~exited
    /\ sessionId # MissingSessionId /\ userId # Missing
    /\ MapHas(activeSessions, sessionId)
    /\ activeSessions[sessionId].userId = userId
    /\ LET session == activeSessions[sessionId]
           left == MapDelete(activeSessions, sessionId)
       IN /\ activeSessions' = left
          /\ userLedger' = IF \E k \in DOMAIN left : left[k].userId = userId
                           THEN userLedger ELSE MapDelete(userLedger, userId)
          /\ response' = [op |-> "stop", status |-> 200,
                          body |-> StopBody(session, now, userLedger)]
    /\ removed' = removed \cup {sessionId}
    /\ UNCHANGED <<now, isInitialized, exited, inflight, issued,
                   startedUsers, published, failures, nextReap,
                   lastTick, nextTick, callTimes, hookVars>>

StopOk(sessionId, userId) ==
    /\ ~exited
    /\ sessionId # MissingSessionId /\ userId # Missing
    /\ MapHas(activeSessions, sessionId)
    /\ activeSessions[sessionId].userId = userId
    /\ LET session == activeSessions[sessionId]
       IN /\ activeSessions' = MapDelete(activeSessions, sessionId)
          /\ response' = [op |-> "stop", status |-> 200,
                          body |-> StopBody(session, now, userLedger)]
    /\ removed' = removed \cup {sessionId}
    /\ UNCHANGED <<now, isInitialized, exited, userLedger, inflight, issued,
                   startedUsers, published, failures, nextReap,
                   lastTick, nextTick, callTimes, hookVars>>

\* The handler called with a request body
StopCall(sessionId, userId) ==
    \/ StopInvalid(sessionId, userId)
    \/ StopNotFound(sessionId, userId)
    \/ StopForbidden(sessionId, userId)
    \/ StopOk(sessionId, userId)

StopSessionIds == issued \cup {MissingSessionId, UnknownSessionId}
StopUserIds == UserIds \cup {Missing}

Stop ==
    \E sessionId \in StopSessionIds, userId \in StopUserIds :
        StopCall(sessionId, userId)

---------------------------------------------------------------------------
(* GET /api/stream/status/:sessionId *)

StatusNotFound(sessionId) ==
    /\ ~exited
    /\ ~MapHas(activeSessions, sessionId)
    /\ response' = [op |-> "status", status |-> 404, body |-> <<>>]
    /\ UNCHANGED <<now, isInitialized, exited, activeSessions, userLedger, inflight,
                   issued, removed,
                   startedUsers, published, failures, nextReap,
                   lastTick, nextTick, callTimes, hookVars>>

StatusBody(session, t) ==
    [sessionId |-> session.sessionId,
     userId |-> session.userId,
     contentId |-> session.contentId,
     startTime |-> session.startTime,
     secondsElapsed |-> ElapsedSeconds(t, session.startTime),
     currentCost |-> Cost(ElapsedSeconds(t, session.startTime)),
     pricePerSecond |-> PRICE_PER_SECOND,
     status |-> "active"]

\* Faulty variant: the status call writes the session's seconds into the ledger
StatusOkRefreshes(sessionId) ==
    /\ ~exited
    /\ MapHas(activeSessions, sessionId)
    /\ LET session == activeSessions[sessionId]
       IN /\ response' = [op |-> "status", status |-> 200, body |-> StatusBody(session, now)]
          /\ userLedger' = [userLedger EXCEPT ![session.userId].totalSeconds =
                                                 ElapsedSeconds(now, session.startTime)]
    /\ UNCHANGED <<now, isInitialized, exited, activeSessions, inflight, issued, removed,
                   startedUsers, published, failures, nextReap,
                   lastTick, nextTick, callTimes, hookVars>>

StatusOk(sessionId) ==
    /\ ~exited
    /\ MapHas(activeSessions, sessionId)
    /\ response' = [op |-> "status", status |-> 200,
                    body |-> StatusBody(activeSessions[sessionId], now)]
    /\ UNCHANGED <<now, isInitialized, exited, activeSessions, userLedger, inflight,
                   issued, removed,
                   startedUsers, published, failures, nextReap,
                   lastTick, nextTick, callTimes, hookVars>>

StatusCall(sessionId) ==
    \/ StatusNotFound(sessionId)
    \/ StatusOk(sessionId)

StatusSessionIds == issued \cup {UnknownSessionId}

Status ==
    \E sessionId \in StatusSessionIds : StatusCall(sessionId)

----------------------------------------------------------------------------
(* GET /api/stream/sessions *)

\* The object the handler maps one session to
SessionProjection(session, t) ==
    [sessionId |-> session.sessionId,
     userId |-> session.userId,
     contentId |-> session.contentId,
     startTime |-> session.startTime,
     secondsElapsed |-> ElapsedSeconds(t, session.startTime),
     currentCost |-> Cost(ElapsedSeconds(t, session.startTime)),
     pricePerSecond |-> PRICE_PER_SECOND]

\* Faulty variant: sessions under one second old are left out of the listing
SessionsBodySkipsFresh(sessions, t) ==
    LET listed == {sid \in DOMAIN sessions : ElapsedSeconds(t, sessions[sid].startTime) > 0}
    IN [totalSessions |-> Cardinality(listed),
        sessions |-> {SessionProjection(sessions[sid], t) : sid \in listed}]

\* The body: one projection per value of the Map, and the length of that array
SessionsBody(sessions, t) ==
    [totalSessions |-> Cardinality(DOMAIN sessions),
     sessions |-> {SessionProjection(sessions[sid], t) : sid \in DOMAIN sessions}]

Sessions ==
    /\ ~exited
    /\ response' = [op |-> "sessions", status |-> 200,
                    body |-> SessionsBody(activeSessions, now)]
    /\ UNCHANGED <<now, isInitialized, exited, activeSessions, userLedger, inflight,
                   issued, removed,
                   startedUsers, published, failures, nextReap,
                   lastTick, nextTick, callTimes, hookVars>>

(* GET /api/health *)

HealthBody(initialized, sessions) ==
    [status |-> "ok",
     initialized |-> initialized,
     activeSessions |-> Cardinality(DOMAIN sessions),
     pricePerSecond |-> PRICE_PER_SECOND]

Health ==
    /\ ~exited
    /\ response' = [op |-> "health", status |-> 200,
                    body |-> HealthBody(isInitialized, activeSessions)]
    /\ UNCHANGED <<now, isInitialized, exited, activeSessions, userLedger, inflight,
                   issued, removed,
                   startedUsers, published, failures, nextReap,
                   lastTick, nextTick, callTimes, hookVars>>

---------------------------------------------------------------------------
(* The aggregation timer callback, up to its await *)

\* Faulty variant: the snapshot is built from userSecondsMap, so it holds only
\* the users with a session
AggregationTickActiveOnly ==
    /\ ~exited
    /\ Len(inflight) < MaxInFlight
    /\ LET usm == UserSecondsMap(activeSessions, now)
           ledger == LedgerUpdate(userLedger, usm, now)
       IN /\ userLedger' = ledger
          /\ inflight' = IF Cardinality(DOMAIN usm) > 0
                         THEN Append(inflight, {[userId |-> uid, totalSeconds |-> usm[uid]] :
                                                   uid \in DOMAIN usm})
                         ELSE inflight
    /\ response' = NoResponse
    /\ UNCHANGED <<now, isInitialized, exited, activeSessions, issued, removed,
                   startedUsers, published, failures, nextReap,
                   lastTick, nextTick, callTimes, hookVars>>

\* Faulty variant: the snapshots hold the ledger's own entry objects, so the
\* update loop of a later tick rewrites the snapshots still in flight
AggregationTickSharesEntries ==
    /\ ~exited
    /\ Len(inflight) < MaxInFlight
    /\ LET usm == UserSecondsMap(activeSessions, now)
           ledger == LedgerUpdate(userLedger, usm, now)
           shared == [i \in 1..Len(inflight) |->
                        {[userId |-> entry.userId,
                          totalSeconds |-> ledger[entry.userId].totalSeconds] :
                             entry \in inflight[i]}]
       IN /\ userLedger' = ledger
          /\ inflight' = IF Cardinality(DOMAIN ledger) > 0
                         THEN Append(shared, Snapshot(ledger))
                         ELSE shared
    /\ response' = NoResponse
    /\ UNCHANGED <<now, isInitialized, exited, activeSessions, issued, removed,
                   startedUsers, published, failures, nextReap,
                   lastTick, nextTick, callTimes, hookVars>>

\* Faulty variant: building the snapshot takes the totals out of the ledger
AggregationTickDrains ==
    /\ ~exited
    /\ Len(inflight) < MaxInFlight
    /\ LET usm == UserSecondsMap(activeSessions, now)
           ledger == LedgerUpdate(userLedger, usm, now)
       IN /\ userLedger' = [uid \in DOMAIN ledger |->
                               [ledger[uid] EXCEPT !.totalSeconds = 0]]
          /\ inflight' = IF Cardinality(DOMAIN ledger) > 0
                         THEN Append(inflight, Snapshot(ledger))
                         ELSE inflight
    /\ response' = NoResponse
    /\ UNCHANGED <<now, isInitialized, exited, activeSessions, issued, removed,
                   startedUsers, published, failures, nextReap,
                   lastTick, nextTick, callTimes, hookVars>>

\* One run of the callback, up to its await
AggregationRun ==
    /\ ~exited
    /\ Len(inflight) < MaxInFlight
    /\ LET usm == UserSecondsMap(activeSessions, now)
           ledger == LedgerUpdate(userLedger, usm, now)
       IN /\ userLedger' = ledger
          /\ inflight' = IF Cardinality(DOMAIN ledger) > 0
                         THEN Append(inflight, Snapshot(ledger))
                         ELSE inflight
    /\ response' = NoResponse
    /\ UNCHANGED <<now, isInitialized, exited, activeSessions, issued, removed,
                   startedUsers, published, failures, nextReap, hookVars>>

\* The callback run at any time
AggregationTick ==
    /\ AggregationRun
    /\ UNCHANGED <<lastTick, nextTick, callTimes>>

\* Faulty variant: the callback does nothing while a publish call is awaited
AggregationTickSkipsWhileBusy ==
    IF inflight = <<>>
    THEN /\ AggregationRun
         /\ callTimes' = IF Cardinality(DOMAIN userLedger) > 0
                          THEN Append(callTimes, now)
                          ELSE callTimes
         /\ UNCHANGED <<lastTick, nextTick>>
    ELSE /\ ~exited
         /\ response' = NoResponse
         /\ UNCHANGED <<now, isInitialized, exited, activeSessions, userLedger, inflight,
                        issued, removed, startedUsers, published, failures, nextReap,
                        lastTick, nextTick, callTimes, hookVars>>

\* The callback run at any time, with the time of its publish call kept as
\* history (publishLedgerState reads Date.now() before its first await)
AggregationTickStamped ==
    /\ AggregationRun
    /\ callTimes' = IF Cardinality(DOMAIN userLedger) > 0
                     THEN Append(callTimes, now)
                     ELSE callTimes
    /\ UNCHANGED <<lastTick, nextTick>>

\* The callback run at any time, with what it read and built kept as history
AggregationTickRecorded ==
    /\ AggregationRun
    /\ lastTick' = [sessions |-> activeSessions,
                    snapshot |-> IF Cardinality(DOMAIN userLedger) > 0
                                 THEN inflight'[Len(inflight')]
                                 ELSE {}]
    /\ UNCHANGED <<nextTick, callTimes>>

\* Faulty variant: the timer fires every other interval
AggregationTickEveryOther ==
    /\ now = nextTick
    /\ AggregationRun
    /\ lastTick' = [sessions |-> activeSessions,
                    snapshot |-> IF Cardinality(DOMAIN userLedger) > 0
                                 THEN inflight'[Len(inflight')]
                                 ELSE {}]
    /\ nextTick' = nextTick + 2 * TICK_INTERVAL
    /\ UNCHANGED callTimes

\* The callback run by setInterval, every TICK_INTERVAL, with what it read
\* and built kept as history
AggregationTickOnSchedule ==
    /\ now = nextTick
    /\ AggregationRun
    /\ lastTick' = [sessions |-> activeSessions,
                    snapshot |-> IF Cardinality(DOMAIN userLedger) > 0
                                 THEN inflight'[Len(inflight')]
                                 ELSE {}]
    /\ nextTick' = nextTick + TICK_INTERVAL
    /\ UNCHANGED callTimes

\* The calls still awaited once the i-th has returned or thrown
Settle(calls, i) ==
    [j \in 1..(Len(calls) - 1) |-> IF j < i THEN calls[j] ELSE calls[j + 1]]

\* The awaited publishLedgerState call returns a transaction id
PublishOk ==
    /\ ~exited
    /\ \E i \in 1..Len(inflight) :
          /\ inflight' = Settle(inflight, i)
          /\ published' = inflight[i]
    /\ response' = NoResponse
    /\ UNCHANGED <<now, isInitialized, exited, activeSessions, userLedger, issued, removed,
                   startedUsers, failures, nextReap,
                   lastTick, nextTick, callTimes, hookVars>>

\* Faulty variant: the exception escapes the callback and the unhandled
\* rejection ends the process
PublishFailUnhandled ==
    /\ ~exited
    /\ \E i \in 1..Len(inflight) : inflight' = Settle(inflight, i)
    /\ failures' = IF failures < MaxFailures THEN failures + 1 ELSE failures
    /\ exited' = TRUE
    /\ response' = NoResponse
    /\ UNCHANGED <<now, isInitialized, activeSessions, userLedger, issued, removed,
                   startedUsers, published, nextReap,
                   lastTick, nextTick, callTimes, hookVars>>

\* Faulty variant: the catch hands the same snapshot to the publisher again
PublishFailRetries ==
    /\ ~exited
    /\ \E i \in 1..Len(inflight) : inflight' = Append(Settle(inflight, i), inflight[i])
    /\ failures' = IF failures < MaxFailures THEN failures + 1 ELSE failures
    /\ response' = NoResponse
    /\ UNCHANGED <<now, isInitialized, exited, activeSessions, userLedger, issued, removed,
                   startedUsers, published, nextReap,
                   lastTick, nextTick, callTimes, hookVars>>

\* The awaited publishLedgerState call throws; the callback logs it
PublishFail ==
    /\ ~exited
    /\ \E i \in 1..Len(inflight) : inflight' = Settle(inflight, i)
    /\ failures' = IF failures < MaxFailures THEN failures + 1 ELSE failures
    /\ response' = NoResponse
    /\ UNCHANGED <<now, isInitialized, exited, activeSessions, userLedger, issued, removed,
                   startedUsers, published, nextReap,
                   lastTick, nextTick, callTimes, hookVars>>

\* The awaited publishLedgerState call comes back, with a transaction id or
\* with an exception: what the server itself keeps of it
PublishSettle(i) ==
    /\ ~exited
    /\ i \in 1..Len(inflight)
    /\ inflight' = Settle(inflight, i)
    /\ response' = NoResponse
    /\ UNCHANGED <<now, isInitialized, exited, activeSessions, userLedger, issued, removed,
                   startedUsers, published, failures, nextReap,
                   lastTick, nextTick, hookVars>>

PublishSettles ==
    \E i \in 1..Len(inflight) : PublishSettle(i) /\ UNCHANGED callTimes

\* The same, with the call times kept in step with the calls
PublishSettlesStamped ==
    \E i \in 1..Len(inflight) : PublishSettle(i) /\ callTimes' = Settle(callTimes, i)

(* The reaper timer callback *)

\* Faulty variant: the loop stops at the first stale session it deletes
ReapFirstOnly(sessions, t) ==
    LET stale == {x \in DOMAIN sessions : IsStale(sessions[x], t)}
    IN IF stale = {} THEN sessions
       ELSE MapDelete(sessions, CHOOSE x \in stale : TRUE)

Reap(sessions, t) ==
    [sid \in {x \in DOMAIN sessions : ~IsStale(sessions[x], t)} |-> sessions[sid]]

\* Faulty variant: the callback writes the seconds of each session it removes
\* into the ledger entry of the session's user
ReaperRunFinalizes ==
    /\ ~exited
    /\ activeSessions' = Reap(activeSessions, now)
    /\ userLedger' =
          [uid \in DOMAIN userLedger |->
              IF \E sid \in DOMAIN activeSessions :
                    /\ activeSessions[sid].userId = uid
                    /\ IsStale(activeSessions[sid], now)
              THEN [userLedger[uid] EXCEPT
                      !.totalSeconds =
                          LET sid == CHOOSE x \in DOMAIN activeSessions :
                                        /\ activeSessions[x].userId = uid
                                        /\ IsStale(activeSessions[x], now)
                          IN ElapsedSeconds(now, activeSessions[sid].startTime)]
              ELSE userLedger[uid]]
    /\ response' = NoResponse
    /\ removed' = removed \cup (DOMAIN activeSessions \ DOMAIN Reap(activeSessions, now))
    /\ UNCHANGED <<now, isInitialized, exited, inflight, issued,
                   startedUsers, published, failures,
                   lastTick, nextTick, callTimes, hookVars>>

\* Faulty variant: the callback clears the ledger total of the user of each
\* session it removes
ReaperRunResets ==
    /\ ~exited
    /\ activeSessions' = Reap(activeSessions, now)
    /\ userLedger' =
          [uid \in DOMAIN userLedger |->
              IF \E sid \in DOMAIN activeSessions :
                    /\ activeSessions[sid].userId = uid
                    /\ IsStale(activeSessions[sid], now)
              THEN [userLedger[uid] EXCEPT !.totalSeconds = 0]
              ELSE userLedger[uid]]
    /\ response' = NoResponse
    /\ removed' = removed \cup (DOMAIN activeSessions \ DOMAIN Reap(activeSessions, now))
    /\ UNCHANGED <<now, isInitialized, exited, inflight, issued,
                   startedUsers, published, failures,
                   lastTick, nextTick, callTimes, hookVars>>

\* One run of the callback
ReaperRun ==
    /\ ~exited
    /\ activeSessions' = Reap(activeSessions, now)
    /\ response' = NoResponse
    /\ removed' = removed \cup (DOMAIN activeSessions \ DOMAIN Reap(activeSessions, now))
    /\ UNCHANGED <<now, isInitialized, exited, userLedger, inflight, issued,
                   startedUsers, published, failures,
                   lastTick, nextTick, callTimes, hookVars>>

\* The callback run at any time
ReaperTick ==
    /\ ReaperRun
    /\ UNCHANGED nextReap

\* The callback run by setInterval, every REAPER_INTERVAL
ReaperTickOnSchedule ==
    /\ now = nextReap
    /\ ReaperRun
    /\ nextReap' = nextReap + REAPER_INTERVAL

\* The number of reaper runs until a session started at 0 is stale at one
ReaperRounds == (AUTO_STOP_TIMEOUT + REAPER_INTERVAL) \div REAPER_INTERVAL

TimedInstants ==
    Instants \cup {k * REAPER_INTERVAL : k \in 1..ReaperRounds}
             \cup {AUTO_STOP_TIMEOUT + REAPER_INTERVAL + TimeStep}

\* The clock where the reaper runs on time: it does not pass nextReap
AdvanceToReaper ==
    /\ ~exited
    /\ \E t \in TimedInstants : t > now /\ t <= nextReap /\ now' = t
    /\ response' = NoResponse
    /\ UNCHANGED <<isInitialized, exited, activeSessions, userLedger, inflight, issued, removed,
                   startedUsers, published, failures, nextReap,
                   lastTick, nextTick, callTimes, hookVars>>

---------------------------------------------------------------------------
(* The useLedger hook: the effect that subscribes to the ledger stream.

   The effect runs once, at mount, and calls setupSubscription, so the hook
   starts with one setup awaiting the SDK. The SDK is outside the source:
   a setup comes back with a subscription or throws, an established
   subscription may call onError any number of times, and an error may or
   may not have ended the subscription. The data callback is not followed:
   it writes only state that no step of the subscription's life reads.
   React drops the state updates of an unmounted component. *)

serverVars == <<isInitialized, exited, activeSessions, userLedger, inflight, response,
                issued, removed, startedUsers, published, failures, nextReap,
                lastTick, nextTick, callTimes>>

\* The clock of the browser: it does not pass a pending timeout
AdvanceHook ==
    /\ now + MsPerSecond <= HookSeconds * MsPerSecond
    /\ \A i \in 1..Len(timers) : timers[i] >= now + MsPerSecond
    /\ now' = now + MsPerSecond
    /\ UNCHANGED <<serverVars, hookVars>>

\* setupSubscription resumes after sdk.streams.subscribe has returned
SetupSucceeds ==
    /\ setups > 0
    /\ created < MaxSubscriptions
    /\ created' = created + 1
    /\ live' = live \cup {created + 1}
    /\ subscription' = created + 1
    /\ isSubscribed' = TRUE
    /\ isConnected' = IF cleanedUp THEN isConnected ELSE TRUE
    /\ setups' = setups - 1
    /\ UNCHANGED <<now, serverVars, timers, cleanedUp>>

\* Faulty variant: the catch block schedules no retry
SetupFailsGivesUp ==
    /\ setups > 0
    /\ setups' = setups - 1
    /\ isConnected' = IF cleanedUp THEN isConnected ELSE FALSE
    /\ UNCHANGED <<now, serverVars, subscription, isSubscribed, live, created, timers,
                   cleanedUp>>

\* setupSubscription resumes in its catch block: an awaited SDK call threw
SetupFails ==
    /\ setups > 0
    /\ Len(timers) < MaxTimers
    /\ setups' = setups - 1
    /\ isConnected' = IF cleanedUp THEN isConnected ELSE FALSE
    /\ timers' = Append(timers, now + RETRY_DELAY)
    /\ UNCHANGED <<now, serverVars, subscription, isSubscribed, live, created, cleanedUp>>

\* onError of subscription k; ends: the error ended the subscription
OnError(k, ends) ==
    /\ k \in live
    /\ Len(timers) < MaxTimers
    /\ isConnected' = IF cleanedUp THEN isConnected ELSE FALSE
    /\ isSubscribed' = FALSE
    /\ timers' = Append(timers, now + RECONNECT_DELAY)
    /\ live' = IF ends THEN live \ {k} ELSE live
    /\ UNCHANGED <<now, serverVars, subscription, setups, created, cleanedUp>>

SubscriptionError ==
    \E k \in 1..MaxSubscriptions, ends \in BOOLEAN : OnError(k, ends)

\* The callback of the i-th pending timeout, run when it is due
TimeoutFires(i) ==
    /\ i \in 1..Len(timers)
    /\ timers[i] = now
    /\ timers' = Settle(timers, i)
    /\ IF ~isSubscribed
       THEN setups < MaxSetups /\ setups' = setups + 1
       ELSE setups' = setups
    /\ UNCHANGED <<now, serverVars, subscription, isSubscribed, isConnected, live, created,
                   cleanedUp>>

Timeout ==
    \E i \in 1..MaxTimers : TimeoutFires(i)

\* The cleanup the effect returns, run at unmount
Cleanup ==
    /\ ~cleanedUp
    /\ live' = IF subscription # NoSubscription THEN live \ {subscription} ELSE live
    /\ isSubscribed' = FALSE
    /\ cleanedUp' = TRUE
    /\ UNCHANGED <<now, serverVars, subscription, isConnected, setups, created, timers>>

NextHook ==
    \/ AdvanceHook
    \/ SetupSucceeds
    \/ SetupFails
    \/ SubscriptionError
    \/ Timeout
    \/ Cleanup

SpecHook == Init /\ [][NextHook]_vars

----------------------------------------------------------------------------
(* The server as its callers see it: every request, well-formed or not, and
   the two timers; a publish call settles without its outcome being recorded,
   since no handler reads it. *)
Next ==
    \/ Advance
    \/ InitializeOk
    \/ InitializeFail
    \/ Start
    \/ Stop
    \/ Status
    \/ Sessions
    \/ Health
    \/ AggregationTick
    \/ PublishSettles
    \/ ReaperTick

Spec == Init /\ [][Next]_vars

(* The server as the publisher sees it: the outcome of every publish call is
   recorded; the requests are the well-formed ones, which are those that can
   change the registry or the ledger. *)
StartWellFormed ==
    \E userId \in UserIds, contentId \in ContentIds :
        \/ StartNotReady(userId, contentId)
        \/ \E random \in RandomSuffixes : StartOk(userId, contentId, random)

StopByOwner ==
    \E sessionId \in DOMAIN activeSessions :
        StopOk(sessionId, activeSessions[sessionId].userId)

NextPublisher ==
    \/ Advance
    \/ InitializeOk
    \/ InitializeFail
    \/ StartWellFormed
    \/ StopByOwner
    \/ AggregationTick
    \/ PublishOk
    \/ PublishFail
    \/ ReaperTick

SpecPublisher == Init /\ [][NextPublisher]_vars

(* The registry under a reaper that runs on time, every REAPER_INTERVAL from
   the load of the module on: the requests that change the registry and the
   reaper; the aggregation callback never writes the registry. *)
NextReaper ==
    \/ AdvanceToReaper
    \/ InitializeOk
    \/ InitializeFail
    \/ StartWellFormed
    \/ StopByOwner
    \/ ReaperTickOnSchedule

SpecReaper == Init /\ [][NextReaper]_vars

(* Both timers on schedule. The clock visits every tick of the aggregation
   timer up to the reaper run that removes the sessions started at the first
   instants; it passes neither timer's next run, and a run and a request at
   the same millisecond happen in either order. Requests arrive at a few
   instants only, and a publish call settles before the clock moves on: the
   registry and the ledger, which this specification follows, depend on no
   publish outcome. *)
LastReap == ReaperRounds * REAPER_INTERVAL

TimerInstants ==
    TimedInstants \cup {k * TICK_INTERVAL : k \in 1..(LastReap \div TICK_INTERVAL)}
                  \cup {LastReap - TimeStep}

RequestInstants == Instants \cup {LastReap - TimeStep}

AdvanceToTimer ==
    /\ ~exited
    /\ inflight = <<>>
    /\ \E t \in TimerInstants : t > now /\ t <= nextTick /\ t <= nextReap /\ now' = t
    /\ response' = NoResponse
    /\ UNCHANGED <<isInitialized, exited, activeSessions, userLedger, inflight, issued, removed,
                   startedUsers, published, failures, nextReap,
                   lastTick, nextTick, callTimes, hookVars>>

StartAtInstant == now \in RequestInstants /\ StartWellFormed

StopAtInstant == now \in RequestInstants /\ StopByOwner

NextTimers ==
    \/ AdvanceToTimer
    \/ InitializeOk
    \/ InitializeFail
    \/ StartAtInstant
    \/ StopAtInstant
    \/ AggregationTickOnSchedule
    \/ PublishSettles
    \/ ReaperTickOnSchedule

SpecTimers == Init /\ [][NextTimers]_vars

(* The aggregation cycle with the time of every publish call recorded, to
   compare the calls in flight; well-formed requests, publish outcomes not
   recorded. *)
NextInFlight ==
    \/ Advance
    \/ InitializeOk
    \/ InitializeFail
    \/ StartWellFormed
    \/ StopByOwner
    \/ AggregationTickStamped
    \/ PublishSettlesStamped
    \/ ReaperTick

SpecInFlight == Init /\ [][NextInFlight]_vars

(* The aggregation cycle with every tick recorded: what a tick read and built
   is kept until the next tick, so that two consecutive snapshots can be
   compared; well-formed requests, publish outcomes not recorded. *)
NextAggregation ==
    \/ Advance
    \/ InitializeOk
    \/ InitializeFail
    \/ StartWellFormed
    \/ StopByOwner
    \/ AggregationTickRecorded
    \/ PublishSettles
    \/ ReaperTick

SpecAggregation == Init /\ [][NextAggregation]_vars

---------------------------------------------------------------------------
(* Vocabulary of the properties *)

\* floor(ms / 1000), by exact division of the largest multiple of a second
FloorSeconds(ms) == (ms - (ms % MsPerSecond)) \div MsPerSecond

\* q is the floor of ms / 1000
IsFloorSeconds(q, ms) == q * MsPerSecond <= ms /\ ms < (q + 1) * MsPerSecond

SessionsOf(sessions, uid) ==
    {sessions[sid] : sid \in {x \in DOMAIN sessions : sessions[x].userId = uid}}

ActiveUsers(sessions) == {sessions[sid].userId : sid \in DOMAIN sessions}

RECURSIVE TotalOf(_, _)
TotalOf(S, t) ==
    IF S = {} THEN 0
    ELSE LET s == CHOOSE x \in S : TRUE
         IN FloorSeconds(t - s.startTime) + TotalOf(S \ {s}, t)

StartedOk(r) == r.op = "start" /\ r.status = 200
StoppedOk(r) == r.op = "stop" /\ r.status = 200

---------------------------------------------------------------------------
(* C1: after an aggregation tick at time now, every user with a session in
   the registry has in the ledger exactly the sum, over that user's sessions,
   of floor((now - startTime) / 1000), whatever total was held before. *)
C1_TickReplacesWithLiveSum ==
    [][AggregationTick =>
         \A uid \in ActiveUsers(activeSessions) :
            /\ uid \in DOMAIN userLedger'
            /\ userLedger'[uid].totalSeconds
                 = TotalOf(SessionsOf(activeSessions, uid), now)]_vars

\* A tick has just recomputed a user with two open sessions: the total is the
\* sum of both, larger than either session's own seconds.
C1_Witness ==
    \E uid \in DOMAIN userLedger :
        LET S == SessionsOf(activeSessions, uid)
        IN /\ Cardinality(S) = 2
           /\ userLedger[uid].lastUpdate = now
           /\ \A s \in S : /\ s.startTime < now
                           /\ FloorSeconds(now - s.startTime) > 0
                           /\ FloorSeconds(now - s.startTime) < userLedger[uid].totalSeconds
           /\ userLedger[uid].totalSeconds = TotalOf(S, now)

(* C2: a user's totalSeconds never decreases from one state to the next
   while the user has a session in the registry in both states. *)
C2_TotalNeverDecreasesWhileActive ==
    [][\A uid \in DOMAIN userLedger :
          (uid \in ActiveUsers(activeSessions) /\ uid \in ActiveUsers(activeSessions'))
            => userLedger'[uid].totalSeconds >= userLedger[uid].totalSeconds]_vars

(* C3: no successful start returns a sessionId that an earlier successful
   start returned, so a start never overwrites a session of the registry. *)
C3_SessionIdsNeverReused ==
    [][StartedOk(response') =>
          /\ response'.body.sessionId \notin issued
          /\ response'.body.sessionId \notin DOMAIN activeSessions]_vars

(* C4: a stop with both fields present whose sessionId is not in the
   registry is answered 404 and leaves the registry and the ledger as they
   were. *)
C4_StopUnknownNotFound ==
    [][\A sessionId \in StopSessionIds \ {MissingSessionId}, userId \in UserIds :
          (sessionId \notin DOMAIN activeSessions /\ StopCall(sessionId, userId))
            => /\ response'.op = "stop" /\ response'.status = 404
               /\ activeSessions' = activeSessions
               /\ userLedger' = userLedger]_vars

\* A stop has just been answered 404 while sessions and ledger entries exist
C4_Witness ==
    /\ response.op = "stop" /\ response.status = 404
    /\ DOMAIN activeSessions # {}
    /\ \E uid \in DOMAIN userLedger : userLedger[uid].totalSeconds > 0

(* C5: a stop on a session of the registry by another user than its owner is
   answered 403; the session stays in the registry with the same fields and
   the ledger is unchanged. *)
C5_StopForbiddenKeepsSession ==
    [][\A sessionId \in DOMAIN activeSessions, userId \in UserIds :
          (activeSessions[sessionId].userId # userId /\ StopCall(sessionId, userId))
            => /\ response'.op = "stop" /\ response'.status = 403
               /\ sessionId \in DOMAIN activeSessions'
               /\ activeSessions' = activeSessions
               /\ userLedger' = userLedger]_vars

\* A stop has just been answered 403 and the registry still holds a session
C5_Witness ==
    /\ response.op = "stop" /\ response.status = 403
    /\ DOMAIN activeSessions # {}

(* C6: once a session has been removed, by a stop or by the reaper, every
   later stop on its sessionId is answered 404 and changes nothing. *)
C6_RemovedSessionStaysRejected ==
    [][\A sessionId \in removed, userId \in UserIds :
          StopCall(sessionId, userId)
            => /\ response'.op = "stop" /\ response'.status = 404
               /\ activeSessions' = activeSessions
               /\ userLedger' = userLedger]_vars

(* C7: a start with userId or contentId missing is answered 400, a start
   before initialization has completed is answered 503, and in both cases
   the registry and the ledger are as before the call. *)
C7_FailedStartChangesNothing ==
    [][\A userId \in StartUserIds, contentId \in StartContentIds :
          StartCall(userId, contentId) =>
            /\ (userId = Missing \/ contentId = Missing)
                 => /\ response'.op = "start" /\ response'.status = 400
                    /\ activeSessions' = activeSessions
                    /\ userLedger' = userLedger
            /\ (userId # Missing /\ contentId # Missing /\ ~isInitialized)
                 => /\ response'.op = "start" /\ response'.status = 503
                    /\ activeSessions' = activeSessions
                    /\ userLedger' = userLedger]_vars

\* A start has just been refused before initialization completed
C7_Witness ==
    /\ response.op = "start" /\ response.status = 503
    /\ ~isInitialized

(* C8: a successful start adds exactly one new session, with the caller's
   userId and contentId and startTime = now, and removes or changes none; it
   creates a zero ledger entry for the user only if the user has none and
   leaves every existing ledger entry unchanged. *)
C8_StartAddsExactlyOneSession ==
    [][\A userId \in UserIds, contentId \in ContentIds :
          (isInitialized /\ StartCall(userId, contentId)) =>
            /\ StartedOk(response')
            /\ LET sessionId == response'.body.sessionId
               IN /\ sessionId \notin DOMAIN activeSessions
                  /\ DOMAIN activeSessions' = DOMAIN activeSessions \cup {sessionId}
                  /\ activeSessions'[sessionId]
                       = [sessionId |-> sessionId, userId |-> userId,
                          contentId |-> contentId, startTime |-> now]
                  /\ \A k \in DOMAIN activeSessions :
                        activeSessions'[k] = activeSessions[k]
            /\ DOMAIN userLedger' = DOMAIN userLedger \cup {userId}
            /\ userId \notin DOMAIN userLedger => userLedger'[userId].totalSeconds = 0
            /\ \A u \in DOMAIN userLedger : userLedger'[u] = userLedger[u]]_vars

(* C9: a successful stop removes exactly the named session, modifies no
   ledger entry, and returns as userTotalSeconds the total the ledger holds
   for the session's user at the time of the call. *)
C9_StopRemovesOneAndReadsLedger ==
    [][\A sessionId \in DOMAIN activeSessions, userId \in UserIds :
          (activeSessions[sessionId].userId = userId /\ StopCall(sessionId, userId))
            => /\ StoppedOk(response')
               /\ DOMAIN activeSessions' = DOMAIN activeSessions \ {sessionId}
               /\ \A k \in DOMAIN activeSessions' : activeSessions'[k] = activeSessions[k]
               /\ userLedger' = userLedger
               /\ response'.body.userTotalSeconds = userLedger[userId].totalSeconds]_vars

\* A stop has just succeeded for a user with another session still open; the
\* total returned is the ledger's, not the stopped session's seconds.
C9_Witness ==
    /\ StoppedOk(response)
    /\ DOMAIN activeSessions # {}
    /\ response.body.userTotalSeconds > 0
    /\ response.body.userTotalSeconds # response.body.sessionSeconds
    /\ \E uid \in DOMAIN userLedger :
          userLedger[uid].totalSeconds = response.body.userTotalSeconds

(* C10: a successful stop at time now of a session started at startTime
   returns sessionSeconds = floor((now - startTime) / 1000) and
   sessionCost = sessionSeconds * pricePerSecond. *)
C10_StopSecondsAndCost ==
    [][\A sessionId \in DOMAIN activeSessions, userId \in UserIds :
          (activeSessions[sessionId].userId = userId /\ StopCall(sessionId, userId))
            => /\ StoppedOk(response')
               /\ IsFloorSeconds(response'.body.sessionSeconds,
                                 now - activeSessions[sessionId].startTime)
               /\ response'.body.sessionCost
                    = response'.body.sessionSeconds * response'.body.pricePerSecond
               /\ response'.body.pricePerSecond = PRICE_PER_SECOND]_vars

\* A stop has just succeeded half a second short of a whole number of seconds
C10_Witness ==
    /\ StoppedOk(response)
    /\ (now - response.body.sessionId.timestamp) % MsPerSecond # 0
    /\ response.body.sessionSeconds > 0
    /\ response.body.sessionCost = response.body.sessionSeconds * PRICE_PER_SECOND

(* C11: a status call on a sessionId of the registry returns
   secondsElapsed = floor((now - startTime) / 1000) and
   currentCost = secondsElapsed * pricePerSecond, hence 0 and 0 before one
   full second has passed; on a sessionId that is not in the registry it is
   answered 404; in both cases the registry and the ledger are unchanged. *)
C11_StatusReportsAndChangesNothing ==
    [][\A sessionId \in StatusSessionIds :
          StatusCall(sessionId) =>
            /\ activeSessions' = activeSessions
            /\ userLedger' = userLedger
            /\ sessionId \in DOMAIN activeSessions =>
                  LET age == now - activeSessions[sessionId].startTime
                  IN /\ response'.op = "status" /\ response'.status = 200
                     /\ IsFloorSeconds(response'.body.secondsElapsed, age)
                     /\ response'.body.currentCost
                          = response'.body.secondsElapsed * response'.body.pricePerSecond
                     /\ response'.body.pricePerSecond = PRICE_PER_SECOND
                     /\ age < MsPerSecond =>
                           /\ response'.body.secondsElapsed = 0
                           /\ response'.body.currentCost = 0
            /\ sessionId \notin DOMAIN activeSessions =>
                  response'.op = "status" /\ response'.status = 404]_vars

\* A status has just been answered for a session half a second short of a
\* whole number of seconds, while the ledger holds a different total
C11_Witness ==
    /\ response.op = "status" /\ response.status = 200
    /\ (now - response.body.startTime) % MsPerSecond # 0
    /\ response.body.secondsElapsed > 0
    /\ response.body.sessionId \in DOMAIN activeSessions
    /\ userLedger[response.body.userId].totalSeconds # response.body.secondsElapsed

(* C12: in every reachable state the ledger holds one entry, under its own
   userId, for each user that has completed a successful start and for no
   other; and no step, whatever it is, removes a ledger entry. *)
C12_LedgerHoldsExactlyStartedUsers ==
    /\ [](/\ DOMAIN userLedger = startedUsers
          /\ \A uid \in DOMAIN userLedger : userLedger[uid].userId = uid)
    /\ [][DOMAIN userLedger \subseteq DOMAIN userLedger']_vars

\* A user whose only session is gone still has an entry, with a total from
\* the last tick, while another user has never started and has none
C12_Witness ==
    /\ removed # {}
    /\ \E uid \in startedUsers :
          /\ uid \notin ActiveUsers(activeSessions)
          /\ uid \in DOMAIN userLedger
          /\ userLedger[uid].totalSeconds > 0
    /\ UserIds \ startedUsers # {}
    /\ DOMAIN userLedger # UserIds

(* C13: an aggregation tick leaves the ledger entry (totalSeconds and
   lastUpdate) of every user without a session in the registry as it was; and
   as long as the user has no session, no step at all changes that entry, so
   the last total persists until the user starts a session again. *)
C13_IdleUserKeepsTotal ==
    [][/\ AggregationTick =>
            \A uid \in DOMAIN userLedger \ ActiveUsers(activeSessions) :
               /\ uid \in DOMAIN userLedger'
               /\ userLedger'[uid].totalSeconds = userLedger[uid].totalSeconds
               /\ userLedger'[uid].lastUpdate = userLedger[uid].lastUpdate
       /\ \A uid \in DOMAIN userLedger :
            (uid \notin ActiveUsers(activeSessions) /\ uid \notin ActiveUsers(activeSessions'))
              => /\ uid \in DOMAIN userLedger'
                 /\ userLedger'[uid] = userLedger[uid]]_vars

\* A tick at the present instant has recomputed one user while another user,
\* without a session, still has an entry written at an earlier instant
C13_Witness ==
    \E idle \in DOMAIN userLedger \ ActiveUsers(activeSessions) :
        /\ userLedger[idle].lastUpdate < now
        /\ \E uid \in ActiveUsers(activeSessions) :
              /\ userLedger[uid].lastUpdate = now
              /\ userLedger[uid].totalSeconds > 0

(* C14: an aggregation tick hands a snapshot to the publisher if and only if
   the ledger is not empty; the snapshot holds exactly one pair per ledger
   entry, users without a session and users whose total did not change
   included, with the totals the ledger holds once this tick has recomputed
   it. *)
C14_TickPublishesWholeLedger ==
    [][AggregationTick =>
         /\ DOMAIN userLedger' = DOMAIN userLedger
         /\ DOMAIN userLedger = {} => inflight' = inflight
         /\ DOMAIN userLedger # {} =>
               /\ Len(inflight') = Len(inflight) + 1
               /\ \A i \in 1..Len(inflight) : inflight'[i] = inflight[i]
               /\ LET snapshot == inflight'[Len(inflight')]
                  IN /\ Cardinality(snapshot) = Cardinality(DOMAIN userLedger')
                     /\ \A uid \in DOMAIN userLedger' :
                           [userId |-> uid,
                            totalSeconds |-> userLedger'[uid].totalSeconds] \in snapshot]_vars

\* The snapshot of a tick at the present instant is awaiting its result: it
\* holds the recomputed total of a user with a session and the unchanged
\* entry of a user without one
C14_Witness ==
    /\ inflight # <<>>
    /\ \E idle \in DOMAIN userLedger \ ActiveUsers(activeSessions) :
          /\ userLedger[idle].lastUpdate < now
          /\ \E uid \in ActiveUsers(activeSessions) :
                /\ userLedger[uid].lastUpdate = now
                /\ userLedger[uid].totalSeconds > 0
                /\ inflight[Len(inflight)]
                     = {[userId |-> idle, totalSeconds |-> userLedger[idle].totalSeconds],
                        [userId |-> uid, totalSeconds |-> userLedger[uid].totalSeconds]}

(* C15: a publish call that fails does not stop the aggregation cycle. The
   failure ends nothing but that call; and however many publishes have
   failed, a tick can still run, recomputes the ledger from the registry and,
   if the ledger is not empty, invokes the publisher again. *)
C15_FailedPublishKeepsCycleRunning ==
    /\ [][PublishFail =>
            /\ ~exited'
            /\ Len(inflight') = Len(inflight) - 1
            /\ activeSessions' = activeSessions
            /\ userLedger' = userLedger]_vars
    /\ []((failures > 0 /\ ~exited /\ Len(inflight) < MaxInFlight)
            => ENABLED AggregationTick)
    /\ [][(failures > 0 /\ AggregationTick) =>
            /\ \A uid \in ActiveUsers(activeSessions) :
                  userLedger'[uid].totalSeconds
                    = TotalOf(SessionsOf(activeSessions, uid), now)
            /\ DOMAIN userLedger # {} =>
                  /\ Len(inflight') = Len(inflight) + 1
                  /\ \A uid \in DOMAIN userLedger' :
                        [userId |-> uid, totalSeconds |-> userLedger'[uid].totalSeconds]
                          \in inflight'[Len(inflight')]]_vars

\* No publish has succeeded, at least two have failed, and the snapshots of
\* two later ticks are awaiting their results
C15_Witness ==
    /\ failures >= 2
    /\ published = {}
    /\ Len(inflight) = 2
    /\ ~exited
    /\ \E uid \in DOMAIN userLedger : userLedger[uid].totalSeconds > 0

(* C16: a step invokes the publisher at most once, and only an aggregation
   tick does, with the snapshot it has just built from the ledger; a publish
   that fails leaves the calls in flight one fewer, so its snapshot is not
   submitted again. *)
C16_OnePublishPerTickNoRetry ==
    [][/\ Len(inflight') <= Len(inflight) + 1
       /\ Len(inflight') > Len(inflight) =>
            /\ AggregationTick
            /\ \A i \in 1..Len(inflight) : inflight'[i] = inflight[i]
            /\ Cardinality(inflight'[Len(inflight')]) = Cardinality(DOMAIN userLedger')
            /\ \A uid \in DOMAIN userLedger' :
                  [userId |-> uid, totalSeconds |-> userLedger'[uid].totalSeconds]
                    \in inflight'[Len(inflight')]
       /\ PublishFail =>
            /\ Len(inflight') = Len(inflight) - 1
            /\ \E i \in 1..Len(inflight) :
                  /\ \A j \in 1..(i - 1) : inflight'[j] = inflight[j]
                  /\ \A j \in i..Len(inflight') : inflight'[j] = inflight[j + 1]]_vars

\* Every snapshot handed over so far has failed and none is in flight, while
\* the ledger still holds a total
C16_Witness ==
    /\ failures > 0
    /\ published = {}
    /\ inflight = <<>>
    /\ \E uid \in DOMAIN userLedger : userLedger[uid].totalSeconds > 0

(* C17: a publish that fails takes nothing back from the ledger, which
   already holds the totals of the tick that built the snapshot; and in every
   reachable state every user's totalSeconds in the ledger is at least the
   user's totalSeconds in the snapshot most recently published with success. *)
C17_LedgerNotBelowPublished ==
    /\ [][PublishFail => userLedger' = userLedger]_vars
    /\ [](\A entry \in published :
             /\ entry.userId \in DOMAIN userLedger
             /\ userLedger[entry.userId].totalSeconds >= entry.totalSeconds)

(* C18: a reaper run at time now leaves in the registry no session with
   now - startTime greater than AUTO_STOP_TIMEOUT, so a status call on it
   finds nothing; hence, with the reaper running every REAPER_INTERVAL, no
   session of the registry is ever older than AUTO_STOP_TIMEOUT plus
   REAPER_INTERVAL. *)
C18_ReaperBoundsSessionAge ==
    /\ [][ReaperTickOnSchedule =>
            /\ \A sid \in DOMAIN activeSessions :
                  now - activeSessions[sid].startTime > AUTO_STOP_TIMEOUT
                    => sid \notin DOMAIN activeSessions'
            /\ \A sid \in DOMAIN activeSessions' :
                  now - activeSessions'[sid].startTime <= AUTO_STOP_TIMEOUT]_vars
    /\ [](\A sid \in DOMAIN activeSessions :
             now - activeSessions[sid].startTime <= AUTO_STOP_TIMEOUT + REAPER_INTERVAL)

\* The clock is past AUTO_STOP_TIMEOUT + REAPER_INTERVAL: the sessions started
\* at 0 and half a second later are gone, the reaper has run at the last
\* multiple of REAPER_INTERVAL
C18_Witness ==
    /\ now > AUTO_STOP_TIMEOUT + REAPER_INTERVAL
    /\ nextReap > now
    /\ Cardinality(removed) = 2
    /\ \E a, b \in removed : a.timestamp = 0 /\ b.timestamp = TimeStep
    /\ activeSessions = EmptyMap

(* C19: a reaper run never modifies the ledger: every entry, those of the
   users whose sessions it removes included, is the same after the run as
   before; and the aggregation ticks that follow keep that total for as long
   as the user has no session. *)
C19_ReaperLeavesLedger ==
    [][/\ ReaperTick =>
            /\ userLedger' = userLedger
            /\ \A sid \in DOMAIN activeSessions \ DOMAIN activeSessions' :
                  LET uid == activeSessions[sid].userId
                  IN /\ userLedger'[uid].totalSeconds = userLedger[uid].totalSeconds
                     /\ userLedger'[uid].lastUpdate = userLedger[uid].lastUpdate
       /\ AggregationTick =>
            \A uid \in DOMAIN userLedger :
               (\A sid \in DOMAIN activeSessions : activeSessions[sid].userId # uid)
                 => userLedger'[uid].totalSeconds = userLedger[uid].totalSeconds]_vars

\* A stale session is gone and nobody has a session; its user's entry was
\* last written long before, by a tick that counted less than the session ran
C19_Witness ==
    /\ activeSessions = EmptyMap
    /\ \E sid \in removed : now - sid.timestamp > AUTO_STOP_TIMEOUT
    /\ \E uid \in DOMAIN userLedger :
          /\ userLedger[uid].lastUpdate < now
          /\ userLedger[uid].lastUpdate > 0
          /\ userLedger[uid].totalSeconds = 0

(* C20: an aggregation tick reads the registry, updates the ledger and builds
   the snapshot in one step: the registry is the same before and after it and
   the snapshot holds the totals computed from that registry. The snapshot is
   a copy: while its publish call is in flight no step changes it, whether a
   start, a stop, a reaper run or a later tick, and what a successful publish
   has written is the snapshot as the tick built it. *)
C20_TickIsOneStepSnapshotIsCopy ==
    [][/\ AggregationTick =>
            /\ activeSessions' = activeSessions
            /\ \A uid \in ActiveUsers(activeSessions) :
                  /\ userLedger'[uid].totalSeconds
                       = TotalOf(SessionsOf(activeSessions, uid), now)
                  /\ [userId |-> uid,
                      totalSeconds |-> TotalOf(SessionsOf(activeSessions, uid), now)]
                        \in inflight'[Len(inflight')]
       /\ Len(inflight') >= Len(inflight) =>
            \A i \in 1..Len(inflight) : inflight'[i] = inflight[i]
       /\ Len(inflight') < Len(inflight) =>
            \E i \in 1..Len(inflight) :
               /\ \A j \in 1..(i - 1) : inflight'[j] = inflight[j]
               /\ \A j \in i..Len(inflight') : inflight'[j] = inflight[j + 1]
               /\ published' # published => published' = inflight[i]]_vars

\* Two snapshots are in flight; since the older was built a start has added
\* a user and a tick has changed the ledger, and the older is as it was
C20_Witness ==
    /\ Len(inflight) = 2
    /\ inflight[1] # inflight[2]
    /\ \E entry \in inflight[1] :
          userLedger[entry.userId].totalSeconds # entry.totalSeconds
    /\ \E uid \in DOMAIN userLedger :
          \A entry \in inflight[1] : entry.userId # uid

(* C22: in every reachable state the registry holds exactly the sessions that
   a successful start has created and that no successful stop and no reaper
   run has removed since; and no other step than a successful start, a
   successful stop or a reaper run changes the registry. *)
C22_RegistryIsStartedMinusRemoved ==
    /\ [](DOMAIN activeSessions = issued \ removed)
    /\ [][\A sid \in DOMAIN activeSessions :
            \/ sid \in DOMAIN activeSessions' /\ activeSessions'[sid] = activeSessions[sid]
            \/ StoppedOk(response') /\ response'.body.sessionId = sid
            \/ ReaperTick /\ IsStale(activeSessions[sid], now)]_vars
    /\ [][\A sid \in DOMAIN activeSessions' \ DOMAIN activeSessions :
            StartedOk(response') /\ response'.body.sessionId = sid]_vars

\* The {userId, totalSeconds} pairs of a ledger
PairsOf(ledger) ==
    {[userId |-> uid, totalSeconds |-> ledger[uid].totalSeconds] : uid \in DOMAIN ledger}

(* C23: building the snapshot does not change the ledger: once a tick has
   built it, the ledger holds the very pairs of the snapshot; and a snapshot
   built while the ledger is the one the previous snapshot was built from is
   equal to the previous one. *)
C23_SnapshotIdempotent ==
    [][(AggregationTick /\ DOMAIN userLedger # {}) =>
          /\ inflight'[Len(inflight')] = PairsOf(userLedger')
          /\ (/\ inflight # <<>>
              /\ inflight[Len(inflight)] = PairsOf(userLedger)
              /\ PairsOf(userLedger') = PairsOf(userLedger))
                => inflight'[Len(inflight')] = inflight[Len(inflight)]]_vars

\* Two equal snapshots, each with a positive total, are in flight and the
\* ledger holds their pairs
C23_Witness ==
    /\ Len(inflight) = 2
    /\ inflight[1] = inflight[2]
    /\ inflight[2] = PairsOf(userLedger)
    /\ \E entry \in inflight[2] : entry.totalSeconds > 0

(* C24: whatever the interleaving of starts, stops, aggregation ticks and
   reaper runs, no ledger entry and no snapshot handed to the publisher holds
   a negative totalSeconds; and a tick gives a user a lower total than the
   snapshot of the tick before only if the set of that user's sessions in the
   registry is not the one the tick before read. *)
C24_TotalsNonNegativeDropsExplained ==
    /\ [](/\ \A uid \in DOMAIN userLedger : userLedger[uid].totalSeconds >= 0
          /\ \A i \in 1..Len(inflight) :
                \A entry \in inflight[i] : entry.totalSeconds >= 0
          /\ \A entry \in lastTick.snapshot : entry.totalSeconds >= 0)
    /\ [][AggregationTickRecorded =>
            \A before \in lastTick.snapshot, after \in lastTick'.snapshot :
               (after.userId = before.userId /\ after.totalSeconds < before.totalSeconds)
                 => SessionsOf(activeSessions, after.userId)
                      # SessionsOf(lastTick.sessions, after.userId)]_vars

\* The snapshots of two consecutive ticks are in flight and the later holds
\* a lower total for a user than the earlier
C24_Witness ==
    /\ Len(inflight) = 2
    /\ inflight[2] = lastTick.snapshot
    /\ lastTick.sessions = activeSessions
    /\ \E before \in inflight[1], after \in inflight[2] :
          after.userId = before.userId /\ after.totalSeconds < before.totalSeconds

(* C25: with the aggregation timer firing every 1000 ms, a successful stop of
   a session that is its user's only session, and that the latest tick has
   read, returns a userTotalSeconds of sessionSeconds or sessionSeconds - 1. *)
C25_StopTotalOneTickStale ==
    [][\A sid \in DOMAIN activeSessions :
          LET session == activeSessions[sid]
          IN (/\ StopOk(sid, session.userId)
              /\ SessionsOf(activeSessions, session.userId) = {session}
              /\ sid \in DOMAIN lastTick.sessions
              /\ lastTick.sessions[sid] = session)
               => /\ response'.body.sessionSeconds - 1 <= response'.body.userTotalSeconds
                  /\ response'.body.userTotalSeconds <= response'.body.sessionSeconds]_vars

(* C25 amended: the same, for a session that was also its user's only session
   when the latest tick ran. *)
C25_StopTotalOneTickStaleOnlyAtTick ==
    [][\A sid \in DOMAIN activeSessions :
          LET session == activeSessions[sid]
          IN (/\ StopOk(sid, session.userId)
              /\ SessionsOf(activeSessions, session.userId) = {session}
              /\ SessionsOf(lastTick.sessions, session.userId) = {session})
               => /\ response'.body.sessionSeconds - 1 <= response'.body.userTotalSeconds
                  /\ response'.body.userTotalSeconds <= response'.body.sessionSeconds]_vars

\* A stop has returned a total one second behind the seconds of the session,
\* which was its user's only session at the latest tick
C25_Witness ==
    /\ StoppedOk(response)
    /\ response.body.sessionSeconds > 0
    /\ response.body.userTotalSeconds = response.body.sessionSeconds - 1
    /\ response.body.sessionId \in DOMAIN lastTick.sessions
    /\ LET session == lastTick.sessions[response.body.sessionId]
       IN /\ SessionsOf(lastTick.sessions, session.userId) = {session}
          /\ SessionsOf(activeSessions, session.userId) = {}

(* C26: with the aggregation timer firing every 1000 ms, when a reaper run at
   `now` removes a session that is its user's only session, the total the
   ledger keeps for the user is floor((now - startTime) / 1000) or one less. *)
C26_ReapedTotalOneTickStale ==
    [][ReaperTickOnSchedule =>
          \A sid \in DOMAIN activeSessions \ DOMAIN activeSessions' :
             LET session == activeSessions[sid]
             IN SessionsOf(activeSessions, session.userId) = {session}
                  => /\ userLedger'[session.userId].totalSeconds
                          >= FloorSeconds(now - session.startTime) - 1
                     /\ userLedger'[session.userId].totalSeconds
                          <= FloorSeconds(now - session.startTime)]_vars

(* C26 amended: the same, for a session that was also its user's only session
   when the latest tick ran. *)
C26_ReapedTotalOneTickStaleOnlyAtTick ==
    [][ReaperTickOnSchedule =>
          \A sid \in DOMAIN activeSessions \ DOMAIN activeSessions' :
             LET session == activeSessions[sid]
             IN (/\ SessionsOf(activeSessions, session.userId) = {session}
                 /\ SessionsOf(lastTick.sessions, session.userId) = {session})
                  => /\ userLedger'[session.userId].totalSeconds
                          >= FloorSeconds(now - session.startTime) - 1
                     /\ userLedger'[session.userId].totalSeconds
                          <= FloorSeconds(now - session.startTime)]_vars

\* The reaper has just run ahead of the tick of the same millisecond and the
\* registry has lost a stale session, its user's only one at the latest tick,
\* whose user keeps a total one second behind the session's seconds
C26_Witness ==
    /\ nextReap = now + REAPER_INTERVAL
    /\ nextTick = now
    /\ \E sid \in (DOMAIN lastTick.sessions \cap removed) \ DOMAIN activeSessions :
          LET session == lastTick.sessions[sid]
          IN /\ IsStale(session, now)
             /\ SessionsOf(lastTick.sessions, session.userId) = {session}
             /\ userLedger[session.userId].totalSeconds
                  = FloorSeconds(now - session.startTime) - 1

(* C27: a reaper run removes only sessions older than AUTO_STOP_TIMEOUT: a
   session whose age at the run is at most AUTO_STOP_TIMEOUT is in the
   registry after the run, with the fields it had before. *)
C27_ReaperKeepsSessionsWithinLimit ==
    [][ReaperTick =>
          \A sid \in DOMAIN activeSessions :
             now - activeSessions[sid].startTime <= AUTO_STOP_TIMEOUT
               => /\ sid \in DOMAIN activeSessions'
                  /\ activeSessions'[sid] = activeSessions[sid]]_vars

\* A reaper run has removed a stale session and kept one whose age is
\* exactly AUTO_STOP_TIMEOUT
C27_Witness ==
    /\ response = NoResponse
    /\ \E sid \in DOMAIN activeSessions :
          now - activeSessions[sid].startTime = AUTO_STOP_TIMEOUT
    /\ \E sid \in removed \ DOMAIN activeSessions :
          now - sid.timestamp > AUTO_STOP_TIMEOUT

(* C28: the user of every session in the registry has a ledger entry, so
   every user the aggregation tick sums seconds for is found in the ledger
   and the tick's branch for a missing entry is never taken. *)
C28_EverySessionHasLedgerEntry ==
    /\ \A sid \in DOMAIN activeSessions : MapHas(userLedger, activeSessions[sid].userId)
    /\ DOMAIN UserSecondsMap(activeSessions, now) \subseteq DOMAIN userLedger

\* Two users have a session each and a tick has written a total for both
C28_Witness ==
    /\ Cardinality(ActiveUsers(activeSessions)) = 2
    /\ \A uid \in ActiveUsers(activeSessions) :
          MapHas(userLedger, uid) /\ userLedger[uid].totalSeconds > 0

(* C29: while a session stays in the registry, under its sessionId, no step
   changes its sessionId, userId, contentId or startTime, and its sessionId
   is the key it is registered under. *)
C29_SessionFieldsNeverChange ==
    /\ [](\A sid \in DOMAIN activeSessions : activeSessions[sid].sessionId = sid)
    /\ [][\A sid \in DOMAIN activeSessions \cap DOMAIN activeSessions' :
            activeSessions'[sid] = activeSessions[sid]]_vars

(* C30: the sessions listing answers 200 with one projection per session of
   the registry, totalSessions being the size of the registry and each
   projection carrying the session's fields and secondsElapsed =
   floor((now - startTime) / 1000); health answers with activeSessions equal
   to the size of the registry; neither changes the registry or the ledger. *)
C30_ListingAndHealthReportRegistry ==
    [][/\ Sessions =>
            /\ response'.status = 200
            /\ response'.body.totalSessions = Cardinality(DOMAIN activeSessions)
            /\ Cardinality(response'.body.sessions) = Cardinality(DOMAIN activeSessions)
            /\ \A sid \in DOMAIN activeSessions :
                  \E p \in response'.body.sessions :
                     /\ p.sessionId = activeSessions[sid].sessionId
                     /\ p.userId = activeSessions[sid].userId
                     /\ p.contentId = activeSessions[sid].contentId
                     /\ p.startTime = activeSessions[sid].startTime
                     /\ IsFloorSeconds(p.secondsElapsed, now - p.startTime)
            /\ activeSessions' = activeSessions /\ userLedger' = userLedger
       /\ Health =>
            /\ response'.status = 200
            /\ response'.body.activeSessions = Cardinality(DOMAIN activeSessions)
            /\ response'.body.initialized = isInitialized
            /\ activeSessions' = activeSessions /\ userLedger' = userLedger]_vars

\* The listing has answered with two sessions of different ages, one of them
\* at least a second old
C30_Witness ==
    /\ response.op = "sessions"
    /\ response.body.totalSessions = 2
    /\ Cardinality(DOMAIN activeSessions) = 2
    /\ \E p, q \in response.body.sessions :
          p.secondsElapsed > 0 /\ q.secondsElapsed # p.secondsElapsed

(* C32: the publisher is invoked only once initialization has completed: a
   tick that runs before it finds the ledger empty and publishes nothing,
   the ledger has an entry only once the service is initialized, and every
   step that puts a publish call in flight is taken by the initialized
   service. *)
C32_NoPublishBeforeInitialized ==
    /\ []((DOMAIN userLedger # {} \/ inflight # <<>>) => isInitialized)
    /\ [][(AggregationTick /\ ~isInitialized) => inflight' = inflight]_vars
    /\ [][Len(inflight') > Len(inflight) => isInitialized]_vars

\* A tick of the initialized service has handed a snapshot with a running
\* total to the publisher
C32_Witness ==
    /\ isInitialized
    /\ inflight # <<>>
    /\ \E entry \in inflight[Len(inflight)] : entry.totalSeconds > 0
    /\ published = {}
    /\ failures = 0

(* C33: a publish call still awaited neither delays nor skips a tick: the
   callback can run whenever the service is up (up to the modelled number of
   calls in flight), it recomputes the ledger whatever is in flight, and with
   a non-empty ledger it puts its own call behind the calls already in
   flight; so the calls in flight are in tick order, taken at non-decreasing
   times. *)
C33_TicksIndependentOfPublishesInFlight ==
    /\ []((~exited /\ Len(inflight) < MaxInFlight) => ENABLED AggregationTickStamped)
    /\ [][AggregationTickStamped =>
            /\ userLedger' = LedgerUpdate(userLedger, UserSecondsMap(activeSessions, now), now)
            /\ DOMAIN userLedger # {} =>
                  /\ inflight' = Append(inflight, PairsOf(userLedger'))
                  /\ callTimes' = Append(callTimes, now)]_vars
    /\ [](/\ Len(callTimes) = Len(inflight)
          /\ \A i, j \in 1..Len(callTimes) : i < j => callTimes[i] <= callTimes[j])

\* Two publish calls of different ticks are in flight at once
C33_Witness ==
    /\ Len(inflight) = 2
    /\ Len(callTimes) = 2
    /\ callTimes[1] < callTimes[2]
    /\ inflight[1] # inflight[2]

(* C36: the start request of the front-end, served by the initialized
   server, is answered 200 and leaves in the registry a session of that user
   under the sessionId of the answer. *)
C36_FrontEndStartRegistersSession ==
    [][\A userId \in UserIds :
          LET request == StartRequest(userId)
          IN (isInitialized /\ StartCall(request.userId, request.contentId))
               => /\ StartedOk(response')
                  /\ response'.body.sessionId \in DOMAIN activeSessions'
                  /\ activeSessions'[response'.body.sessionId].userId = userId]_vars

(* C31: while the component is mounted, a subscription error schedules a
   timeout 3 seconds ahead and a failed setup one 5 seconds ahead; no
   timeout is overdue; a timeout that fires while no subscription is
   established starts a setup; so, as long as no subscription is
   established, a setup is awaited or a timeout is pending. *)
C31_HookReconnects ==
    /\ [][\A k \in 1..MaxSubscriptions, ends \in BOOLEAN :
            (OnError(k, ends) /\ ~cleanedUp)
              => timers' = Append(timers, now + 3 * MsPerSecond)]_vars
    /\ [][(SetupFails /\ ~cleanedUp) => timers' = Append(timers, now + 5 * MsPerSecond)]_vars
    /\ [](\A i \in 1..Len(timers) : timers[i] >= now)
    /\ [][\A i \in 1..MaxTimers :
            (TimeoutFires(i) /\ ~cleanedUp /\ ~isSubscribed) => setups' = setups + 1]_vars
    /\ []((~cleanedUp /\ ~isSubscribed) => (setups > 0 \/ timers # <<>>))

\* The mounted hook holds its second subscription, established 8 seconds
\* after mount: a failed setup, a retry, an error and a reconnect lead there
C31_Witness ==
    /\ ~cleanedUp
    /\ isSubscribed
    /\ created = 2
    /\ subscription = 2
    /\ now = RETRY_DELAY + RECONNECT_DELAY
    /\ setups = 0
    /\ timers = <<>>

(* C34: once the cleanup of the effect has run, no subscription is live and
   the SDK establishes none. *)
C34_NoSubscriptionAfterCleanup ==
    /\ [](cleanedUp => live = {})
    /\ [][cleanedUp => created' = created]_vars

(* C35: at any time at most one subscription of the hook is live. *)
C35_AtMostOneLiveSubscription ==
    Cardinality(live) <= 1
====
